---- MODULE Spec2Model ----
(***************************************************************************)
(* Model of src/app.py, the "Date Decision Simulator" Streamlit script.    *)
(*                                                                         *)
(* The script is re-executed from its first line on every widget change.   *)
(* One execution loads the classifier and the baseline row (cached by      *)
(* st.cache_data), reads the thirteen sliders, builds the feature row      *)
(* input_df, scores it, shows the verdict, scores six "+1" counterfactual  *)
(* rows and draws the chart.                                               *)
(*                                                                         *)
(* Data frames are Python objects: a name holds a reference, and           *)
(* df[col] = v writes through the reference.  The model keeps a heap of    *)
(* one-row frames (functions from column name to value) and the names      *)
(* baseline_df, input_df and temp_df hold object identifiers.              *)
(*                                                                         *)
(* Numbers: ratings are the integers 1..10 as the sliders give them; the   *)
(* float slider int_corr moves in steps of 0.01 and is held in hundredths  *)
(* (-100..100).  A probability k/n of a forest of n trees is the record    *)
(* [yes |-> k, of |-> n].                                                  *)
(***************************************************************************)
EXTENDS Integers, Sequences, FiniteSets, TLC

\* At most this many sliders are away from their default position at once.
MaxChanged == 1

----------------------------------------------------------------------------
\* Sidebar sliders (section 3 of the script)

RatingSliders ==
    {"attr_p", "sinc_p", "intel_p", "fun_p", "amb_p", "share_p",
     "attr_imp", "sinc_imp", "intel_imp", "fun_imp", "amb_imp", "share_imp"}

SliderNames == RatingSliders \cup {"int_corr"}

\* Third positional argument of each st.sidebar.slider call.
SliderDefault ==
    [s \in SliderNames |->
        CASE s = "attr_p"    -> 6
          [] s = "sinc_p"    -> 7
          [] s = "intel_p"   -> 7
          [] s = "fun_p"     -> 7
          [] s = "amb_p"     -> 6
          [] s = "share_p"   -> 5
          [] s = "attr_imp"  -> 6
          [] s = "sinc_imp"  -> 7
          [] s = "intel_imp" -> 7
          [] s = "fun_imp"   -> 7
          [] s = "amb_imp"   -> 6
          [] s = "share_imp" -> 6
          [] s = "int_corr"  -> 50]

\* min_value..max_value of each slider (int_corr in hundredths).
SliderRange(s) == IF s = "int_corr" THEN -100 .. 100 ELSE 1 .. 10

\* The positions the user chooses among in the model: every position of the
\* twelve rating sliders, and five of the correlation slider's 201.
UserChoices(s) ==
    IF s = "int_corr" THEN {-100, -1, 0, 50, 100} ELSE SliderRange(s)

----------------------------------------------------------------------------
\* Data frames

\* A one-row frame with no columns; also the content of an unallocated object.
EmptyRow == [c \in {} |-> 0]

ObjIds == {"baseline_obj", "input_obj", "temp_obj"}

EmptyHeap == [o \in ObjIds |-> EmptyRow]

\* DataFrame.__setitem__ with a scalar: sets the column, creating it when the
\* frame does not have it.
SetItem(df, col, v) ==
    [c \in (DOMAIN df) \cup {col} |-> IF c = col THEN v ELSE df[c]]

\* A write that forces the value into the rating scale 1..10.
AssignInputClamped(df, col, v) ==
    SetItem(df, col, IF v < 1 THEN 1 ELSE IF v > 10 THEN 10 ELSE v)

\* The write the script performs for each user input.
AssignInput(df, col, v) == SetItem(df, col, v)

\* A copy that hands back the source object itself.
DataFrameAlias(h, src, fresh) == [heap |-> h, ref |-> src]

\* DataFrame.copy() (deep by default): a new object with the source's content.
DataFrameCopy(h, src, fresh) ==
    [heap |-> [h EXCEPT ![fresh] = h[src]], ref |-> fresh]

\* The assignments of section 4 with the two dataset spellings "corrected".
AssignmentsRespelled ==
    << <<"attractive_partner", "attr_p">>,
       <<"sincere_partner", "sinc_p">>,
       <<"intelligence_partner", "intel_p">>,
       <<"funny_partner", "fun_p">>,
       <<"ambition_partner", "amb_p">>,
       <<"shared_interests_partner", "share_p">>,
       <<"attractive_important", "attr_imp">>,
       <<"sincere_important", "sinc_imp">>,
       <<"intelligence_important", "intel_imp">>,
       <<"funny_important", "fun_imp">>,
       <<"ambition_important", "amb_imp">>,
       <<"shared_interests_important", "share_imp">>,
       <<"interests_correlate", "int_corr">> >>

\* The assignments of section 4 without the shared-interests partner rating.
AssignmentsPartial ==
    << <<"attractive_partner", "attr_p">>,
       <<"sincere_partner", "sinc_p">>,
       <<"intelligence_partner", "intel_p">>,
       <<"funny_partner", "fun_p">>,
       <<"ambition_partner", "amb_p">>,
       <<"attractive_important", "attr_imp">>,
       <<"sincere_important", "sinc_imp">>,
       <<"intellicence_important", "intel_imp">>,
       <<"funny_important", "fun_imp">>,
       <<"ambtition_important", "amb_imp">>,
       <<"shared_interests_important", "share_imp">>,
       <<"interests_correlate", "int_corr">> >>

\* The thirteen statements input_df[column] = slider, in program order.
Assignments ==
    << <<"attractive_partner", "attr_p">>,
       <<"sincere_partner", "sinc_p">>,
       <<"intelligence_partner", "intel_p">>,
       <<"funny_partner", "fun_p">>,
       <<"ambition_partner", "amb_p">>,
       <<"shared_interests_partner", "share_p">>,
       <<"attractive_important", "attr_imp">>,
       <<"sincere_important", "sinc_imp">>,
       <<"intellicence_important", "intel_imp">>,
       <<"funny_important", "fun_imp">>,
       <<"ambtition_important", "amb_imp">>,
       <<"shared_interests_important", "share_imp">>,
       <<"interests_correlate", "int_corr">> >>

\* The frame after the first n assignments have been applied to df.
RECURSIVE Overwrite(_, _, _)
Overwrite(df, inputs, n) ==
    IF n = 0 THEN df
    ELSE AssignInput(Overwrite(df, inputs, n - 1),
                     Assignments[n][1], inputs[Assignments[n][2]])

----------------------------------------------------------------------------
\* Artifacts on disk

\* Column names of baseline.csv: the model's input columns.  The thirteen
\* user-controlled ones and two of the hidden ones (d_age, met).
BaselineCols ==
    {"attractive_partner", "sincere_partner", "intelligence_partner",
     "funny_partner", "ambition_partner", "shared_interests_partner",
     "attractive_important", "sincere_important", "intellicence_important",
     "funny_important", "ambtition_important", "shared_interests_important",
     "interests_correlate", "d_age", "met"}

\* Contents baseline.csv may have: one row of default values per column.
BaselineRows ==
    { [c \in BaselineCols |->
          CASE c = "interests_correlate" -> 20
            [] c = "d_age" -> 4
            [] c = "met" -> 0
            [] c = "shared_interests_partner" -> 5
            [] OTHER -> 6],
      [c \in BaselineCols |->
          CASE c = "interests_correlate" -> -10
            [] c = "d_age" -> 2
            [] c = "met" -> 1
            [] c = "shared_interests_partner" -> 7
            [] OTHER -> 8] }

\* Contents dating_model.joblib may have: a forest of threshold trees, each
\* voting "yes" when its column is at least its threshold.
Forests ==
    { << [col |-> "attractive_partner", thr |-> 7],
         [col |-> "funny_partner", thr |-> 8],
         [col |-> "shared_interests_partner", thr |-> 6],
         [col |-> "interests_correlate", thr |-> 0] >>,
      << [col |-> "d_age", thr |-> 3],
         [col |-> "attractive_important", thr |-> 7],
         [col |-> "sincere_partner", thr |-> 10] >> }

\* No model loaded.
NoModel == << >>

\* rf_model.predict_proba(df)[0][1]: the share of the trees voting "yes".
predict_proba(model, df) ==
    [yes |-> Cardinality({t \in DOMAIN model :
                            /\ model[t].col \in DOMAIN df
                            /\ df[model[t].col] >= model[t].thr}),
     of  |-> Len(model)]

NoProb == [yes |-> 0, of |-> 0]

\* Nothing shown by st.metric yet.
NoMetric == -1

\* f"{p:.1%}": the percentage to one decimal, held in tenths of a percent,
\* rounded to nearest with ties to even.
FormatPercent1(p) ==
    IF p.of = 0 THEN 0
    ELSE LET q == (1000 * p.yes) \div p.of
             r == (1000 * p.yes) % p.of
         IN  IF 2 * r > p.of THEN q + 1
             ELSE IF 2 * r = p.of THEN q + (q % 2)
             ELSE q

----------------------------------------------------------------------------
\* Section 2: load_resources and its try/except

\* The outcome of a call that raised exception e instead of returning.
Raised(e) == [raised |-> e, model |-> NoModel, baseline |-> EmptyRow]

\* A loader that only notices a missing model file.
load_resources_unchecked(files, disk) ==
    IF ~files.model
    THEN Raised("FileNotFoundError")
    ELSE [raised |-> "none", model |-> disk.model,
          baseline |-> IF files.baseline THEN disk.baseline ELSE EmptyRow]

\* joblib.load then pd.read_csv: either raises FileNotFoundError when its
\* file is absent.
load_resources(files, disk) ==
    IF ~files.model \/ ~files.baseline
    THEN Raised("FileNotFoundError")
    ELSE [raised |-> "none", model |-> disk.model, baseline |-> disk.baseline]

----------------------------------------------------------------------------
\* Section 5: the verdict

\* A threshold that also accepts one half.
AtLeastHalf(p) == 2 * p.yes >= p.of

\* prob > 0.5
GreaterThanHalf(p) == 2 * p.yes > p.of

----------------------------------------------------------------------------
\* Section 6: sensitivity analysis

\* The list with one trait left out.
features_to_bump_short ==
    <<"attractive_partner", "sincere_partner", "intelligence_partner",
      "funny_partner", "ambition_partner">>

features_to_bump ==
    <<"attractive_partner", "sincere_partner", "intelligence_partner",
      "funny_partner", "ambition_partner", "shared_interests_partner">>

label_map ==
    [f \in {"attractive_partner", "sincere_partner", "intelligence_partner",
            "funny_partner", "ambition_partner", "shared_interests_partner"} |->
        CASE f = "attractive_partner"       -> "Partner's Attractiveness"
          [] f = "sincere_partner"          -> "Partner's Sincerity"
          [] f = "intelligence_partner"     -> "Partner's Intelligence"
          [] f = "funny_partner"            -> "Partner's Humor"
          [] f = "ambition_partner"         -> "Partner's Ambition"
          [] f = "shared_interests_partner" -> "Shared Interests"]

\* An increment without the cap.
BumpUncapped(current_val) == current_val + 1

\* min(current_val + 1, 10)
Bump(current_val) == IF current_val + 1 < 10 THEN current_val + 1 ELSE 10

\* An entry that stores the lift over the base probability instead.
ChartEntryDelta(feat, new_prob, base_prob) ==
    [Trait |-> label_map[feat],
     Probability |-> [yes |-> new_prob.yes - base_prob.yes, of |-> new_prob.of],
     Label |-> FormatPercent1(new_prob)]

\* The dict appended to data_for_chart.
ChartEntry(feat, new_prob, base_prob) ==
    [Trait |-> label_map[feat],
     Probability |-> new_prob,
     Label |-> FormatPercent1(new_prob)]

----------------------------------------------------------------------------
\* State

VARIABLES
    files,          \* which of the two artifact files exist
    disk,           \* their contents
    cache,          \* st.cache_data's entries for load_resources (none or one)
    widgets,        \* slider positions kept by the Streamlit session
    pc,             \* the section the running script is about to execute
    heap,           \* the data-frame objects
    rf_model,       \* the loaded classifier
    baseline_df,    \* reference held by the name baseline_df
    input_df,       \* reference held by the name input_df
    temp_df,        \* reference held by the name temp_df
    prob,           \* base probability
    metric,         \* text of st.metric
    verdict,        \* "yes" (st.success), "no" (st.error) or "none"
    i,              \* position of the for loop in features_to_bump
    data_for_chart, \* entries appended so far
    chart,          \* what st.altair_chart was given (nothing or one chart)
    error_shown,    \* the missing-files st.error was shown
    calls           \* the classifier calls of this run: what was scored

vars == <<files, disk, cache, widgets, pc, heap, rf_model, baseline_df,
          input_df, temp_df, prob, metric, verdict, i, data_for_chart, chart,
          error_shown, calls>>

\* The script's namespace and output at the start of the first run.
FreshRun ==
    /\ heap = EmptyHeap
    /\ rf_model = NoModel
    /\ baseline_df = "none"
    /\ input_df = "none"
    /\ temp_df = "none"
    /\ prob = NoProb
    /\ metric = NoMetric
    /\ verdict = "none"
    /\ i = 0
    /\ data_for_chart = << >>
    /\ chart = << >>
    /\ error_shown = FALSE
    /\ calls = << >>

\* A rerun starts from an empty namespace and an empty page.
StartRun ==
    /\ heap' = EmptyHeap
    /\ rf_model' = NoModel
    /\ baseline_df' = "none"
    /\ input_df' = "none"
    /\ temp_df' = "none"
    /\ prob' = NoProb
    /\ metric' = NoMetric
    /\ verdict' = "none"
    /\ i' = 0
    /\ data_for_chart' = << >>
    /\ chart' = << >>
    /\ error_shown' = FALSE
    /\ calls' = << >>

Init ==
    /\ files \in [model : BOOLEAN, baseline : BOOLEAN]
    /\ disk \in [model : Forests, baseline : BaselineRows]
    /\ cache = << >>
    /\ widgets = SliderDefault
    /\ pc = "load"
    /\ FreshRun

\* Lines 12-24, cache miss, both files present.
LoadFromDisk ==
    /\ pc = "load"
    /\ cache = << >>
    /\ load_resources(files, disk).raised = "none"
    /\ LET r == load_resources(files, disk)
       IN  /\ cache' = <<r>>
           /\ rf_model' = r.model
           /\ heap' = [heap EXCEPT !["baseline_obj"] = r.baseline]
    /\ baseline_df' = "baseline_obj"
    /\ pc' = "prepare"
    /\ UNCHANGED <<files, disk, widgets, input_df, temp_df, prob, metric,
                   verdict, i, data_for_chart, chart, error_shown, calls>>

\* Lines 12-24, cache hit: st.cache_data hands out a copy of the cached value.
LoadFromCache ==
    /\ pc = "load"
    /\ cache # << >>
    /\ rf_model' = cache[1].model
    /\ heap' = [heap EXCEPT !["baseline_obj"] = cache[1].baseline]
    /\ baseline_df' = "baseline_obj"
    /\ pc' = "prepare"
    /\ UNCHANGED <<files, disk, cache, widgets, input_df, temp_df, prob,
                   metric, verdict, i, data_for_chart, chart, error_shown,
                   calls>>

\* Lines 20-24: FileNotFoundError is caught, st.error, st.stop.
LoadFails ==
    /\ pc = "load"
    /\ cache = << >>
    /\ load_resources(files, disk).raised = "FileNotFoundError"
    /\ error_shown' = TRUE
    /\ pc' = "stopped"
    /\ UNCHANGED <<files, disk, cache, widgets, heap, rf_model, baseline_df,
                   input_df, temp_df, prob, metric, verdict, i,
                   data_for_chart, chart, calls>>

\* Lines 53-72: copy the baseline row, then the thirteen assignments.
PrepareData ==
    /\ pc = "prepare"
    /\ LET c == DataFrameCopy(heap, baseline_df, "input_obj")
       IN  /\ input_df' = c.ref
           /\ heap' = [c.heap EXCEPT
                         ![c.ref] = Overwrite(c.heap[c.ref], widgets,
                                              Len(Assignments))]
    /\ pc' = "predict"
    /\ UNCHANGED <<files, disk, cache, widgets, rf_model, baseline_df,
                   temp_df, prob, metric, verdict, i, data_for_chart, chart,
                   error_shown, calls>>

\* Line 78.
Predict ==
    /\ pc = "predict"
    /\ prob' = predict_proba(rf_model, heap[input_df])
    /\ calls' = Append(calls, [what |-> "base", row |-> heap[input_df]])
    /\ pc' = "verdict"
    /\ UNCHANGED <<files, disk, cache, widgets, heap, rf_model, baseline_df,
                   input_df, temp_df, metric, verdict, i, data_for_chart,
                   chart, error_shown>>

\* Lines 80-90.
ShowVerdict ==
    /\ pc = "verdict"
    /\ metric' = FormatPercent1(prob)
    /\ verdict' = IF GreaterThanHalf(prob) THEN "yes" ELSE "no"
    /\ pc' = "sensitivity"
    /\ UNCHANGED <<files, disk, cache, widgets, heap, rf_model, baseline_df,
                   input_df, temp_df, prob, i, data_for_chart, chart,
                   error_shown, calls>>

\* Lines 121-142: headings, features_to_bump, label_map, data_for_chart = [].
SensitivitySetup ==
    /\ pc = "sensitivity"
    /\ data_for_chart' = << >>
    /\ i' = 1
    /\ pc' = "loop"
    /\ UNCHANGED <<files, disk, cache, widgets, heap, rf_model, baseline_df,
                   input_df, temp_df, prob, metric, verdict, chart,
                   error_shown, calls>>

\* Lines 144-159: one iteration of the for loop.
BumpFeature ==
    /\ pc = "loop"
    /\ i <= Len(features_to_bump)
    /\ LET feat == features_to_bump[i]
           c == DataFrameCopy(heap, input_df, "temp_obj")
           current_val == c.heap[c.ref][feat]
           h == [c.heap EXCEPT
                   ![c.ref] = SetItem(c.heap[c.ref], feat, Bump(current_val))]
           new_prob == predict_proba(rf_model, h[c.ref])
       IN  /\ temp_df' = c.ref
           /\ heap' = h
           /\ calls' = Append(calls, [what |-> feat, row |-> h[c.ref]])
           /\ data_for_chart' =
                Append(data_for_chart, ChartEntry(feat, new_prob, prob))
    /\ i' = i + 1
    /\ UNCHANGED <<files, disk, cache, widgets, pc, rf_model, baseline_df,
                   input_df, prob, metric, verdict, chart, error_shown>>

\* Lines 161-193: chart_df, bars sorted by descending probability, labels,
\* and the rule at the base probability.
RenderChart ==
    /\ pc = "loop"
    /\ i > Len(features_to_bump)
    /\ chart' = <<[chart_df |-> data_for_chart, sort |-> "-y", rule |-> prob]>>
    /\ pc' = "done"
    /\ UNCHANGED <<files, disk, cache, widgets, heap, rf_model, baseline_df,
                   input_df, temp_df, prob, metric, verdict, i,
                   data_for_chart, error_shown, calls>>

\* The user moves slider s to v; Streamlit reruns the script from the top.
UserChange(s, v) ==
    /\ pc = "done"
    /\ v \in SliderRange(s)
    /\ v # widgets[s]
    /\ widgets' = [widgets EXCEPT ![s] = v]
    /\ Cardinality({t \in SliderNames : widgets'[t] # SliderDefault[t]})
          <= MaxChanged
    /\ pc' = "load"
    /\ StartRun
    /\ UNCHANGED <<files, disk, cache>>

Script ==
    \/ LoadFromDisk
    \/ LoadFromCache
    \/ LoadFails
    \/ PrepareData
    \/ Predict
    \/ ShowVerdict
    \/ SensitivitySetup
    \/ BumpFeature
    \/ RenderChart

Next ==
    \/ Script
    \/ \E s \in SliderNames : \E v \in UserChoices(s) : UserChange(s, v)

Spec == Init /\ [][Next]_vars

\* The script, once started, runs to its end; the user may stop interacting.
FairSpec == Spec /\ WF_vars(Script)

----------------------------------------------------------------------------
\* Vocabulary of the properties

\* The columns section 4 writes.
OverwrittenCols == {Assignments[n][1] : n \in DOMAIN Assignments}

\* The slider whose value section 4 writes to column col.
SliderOf(col) ==
    CHOOSE s \in SliderNames : \E n \in DOMAIN Assignments : Assignments[n] = <<col, s>>

\* The twelve columns that hold ratings on the 1..10 scale.
RatingCols == OverwrittenCols \ {"interests_correlate"}

\* The frame the name input_df refers to, once section 4 has run.
Built == input_df # "none"

\* The classifier has been loaded and both files were there.
Loaded == baseline_df # "none"

----------------------------------------------------------------------------
\* C1: the feature vector built from the baseline row and the thirteen user
\* inputs has every baseline column; each overwritten column holds the
\* slider's value exactly as given, and every other column holds its baseline
\* value.
C1_BuildFeatureVector ==
    Built =>
        LET row == heap[input_df]
            base == disk.baseline
        IN  /\ DOMAIN base \subseteq DOMAIN row
            /\ \A n \in DOMAIN Assignments :
                  row[Assignments[n][1]] = widgets[Assignments[n][2]]
            /\ \A c \in (DOMAIN base) \ OverwrittenCols : row[c] = base[c]

\* A built vector whose correlation is negative (outside the rating scale),
\* whose attractiveness differs from baseline and whose hidden column d_age
\* is the baseline's.
C1_Witness ==
    /\ Built
    /\ widgets["int_corr"] = -100
    /\ heap[input_df]["interests_correlate"] = -100
    /\ heap[input_df]["attractive_partner"] # disk.baseline["attractive_partner"]
    /\ heap[input_df]["d_age"] = disk.baseline["d_age"]

\* C2: every counterfactual vector scored differs from the base vector scored
\* in no column but its own trait's, and the base vector input_df is, at every
\* point of the loop and after it, the vector that was scored as base.
C2_PerturbationsNeverCompound ==
    Len(calls) >= 1 =>
        /\ heap[input_df] = calls[1].row
        /\ \A k \in 2 .. Len(calls) :
              /\ DOMAIN calls[k].row = DOMAIN calls[1].row
              /\ \A c \in DOMAIN calls[1].row :
                    c # calls[k].what => calls[k].row[c] = calls[1].row[c]

\* The loop is over; the first trait was incremented in its own vector and is
\* back at its base value in the vector scored for the last trait.
C2_Witness ==
    /\ pc = "done"
    /\ Len(calls) = 7
    /\ calls[2].row["attractive_partner"] = calls[1].row["attractive_partner"] + 1
    /\ calls[7].row["attractive_partner"] = calls[1].row["attractive_partner"]
    /\ calls[7].row["shared_interests_partner"]
          = calls[1].row["shared_interests_partner"] + 1

\* C3: the counterfactual vector of a trait holds min(v + 1, 10) in that
\* trait's column, v being the slider's rating: v + 1 for v in 1..9, 10 for
\* v = 10; no rating column of a counterfactual vector exceeds 10.
C3_SaturatingIncrement ==
    \A k \in 2 .. Len(calls) :
        LET f == calls[k].what
            v == widgets[SliderOf(f)]
        IN  /\ v \in 1 .. 10
            /\ v <= 9 => calls[k].row[f] = v + 1
            /\ v = 10 => calls[k].row[f] = 10
            /\ \A c \in RatingCols : calls[k].row[c] <= 10

\* A trait rated 10 was bumped and its column is still 10; another trait of
\* the same run went up by one.
C3_Witness ==
    /\ pc = "done"
    /\ widgets["fun_p"] = 10
    /\ calls[5].what = "funny_partner"
    /\ calls[5].row["funny_partner"] = 10
    /\ calls[2].row["attractive_partner"] = widgets["attr_p"] + 1

\* C4: once the verdict is shown it is "yes" exactly when the base
\* probability is above one half and "no" exactly when it is one half or
\* less; before that no verdict is shown.
C4_VerdictThreshold ==
    /\ verdict \in {"none", "yes", "no"}
    /\ pc \in {"load", "prepare", "predict", "verdict", "stopped"}
          => verdict = "none"
    /\ pc \in {"sensitivity", "loop", "done"} =>
          /\ prob = predict_proba(disk.model, calls[1].row)
          /\ verdict = "yes" <=> 2 * prob.yes > prob.of
          /\ verdict = "no" <=> 2 * prob.yes <= prob.of

\* The base probability is exactly one half and the verdict shown is "no".
C4_Witness ==
    /\ pc = "done"
    /\ prob.of > 0
    /\ 2 * prob.yes = prob.of
    /\ verdict = "no"

\* C5 as stated: every entry recorded holds the trait, the bumped probability
\* and the delta, the bumped probability minus the base probability.
C5_EntriesHoldDelta ==
    pc = "done" =>
        /\ Len(data_for_chart) = 6
        /\ \A k \in 1 .. Len(data_for_chart) :
              LET e == data_for_chart[k]
              IN  /\ e.Trait = label_map[calls[k + 1].what]
                  /\ e.Probability = predict_proba(disk.model, calls[k + 1].row)
                  /\ "Delta" \in DOMAIN e
                  /\ e.Delta = [yes |-> e.Probability.yes - prob.yes,
                                of  |-> e.Probability.of]

\* C5 amended: one entry per scored trait, in the order scored, six when the
\* loop is over; an entry holds the trait's display label, the bumped
\* probability and that probability as a percentage to one decimal, and
\* nothing else (no delta is stored).
C5_EntriesHoldLabelAndProbability ==
    /\ pc \in {"loop", "done"} => Len(data_for_chart) = Len(calls) - 1
    /\ pc = "done" =>
          /\ Len(data_for_chart) = 6
          /\ \A j, k \in 1 .. 6 :
                j # k => data_for_chart[j].Trait # data_for_chart[k].Trait
    /\ \A k \in 1 .. Len(data_for_chart) :
          LET e == data_for_chart[k]
              p == predict_proba(disk.model, calls[k + 1].row)
              d == e.Label * p.of - 1000 * p.yes
          IN  /\ DOMAIN e = {"Trait", "Probability", "Label"}
              /\ e.Trait = label_map[calls[k + 1].what]
              /\ e.Probability = p
              /\ 2 * d <= p.of /\ -2 * d <= p.of

\* Six entries are recorded, the base probability is not zero, and the first
\* entry's probability is above the base probability.
C5_Witness ==
    /\ pc = "done"
    /\ Len(data_for_chart) = 6
    /\ prob.yes > 0
    /\ data_for_chart[1].Probability.yes > prob.yes
    /\ data_for_chart[1].Trait = "Partner's Attractiveness"

\* C6: when either artifact file is missing the run gets no further than the
\* load: the error message is what a stopped run shows, and no vector is
\* built, the classifier is never called, and no metric, verdict, entry or
\* chart is produced.  The message is shown in no other case.
C6_MissingArtifactStops ==
    /\ (~files.model \/ ~files.baseline) =>
          /\ pc \in {"load", "stopped"}
          /\ ~Built
          /\ calls = << >>
          /\ metric = NoMetric
          /\ verdict = "none"
          /\ data_for_chart = << >>
          /\ chart = << >>
    /\ pc = "stopped" <=> error_shown
    /\ error_shown => (~files.model \/ ~files.baseline)

\* The classifier is there, the baseline file is not: the run has stopped
\* with the message.
C6_Witness ==
    /\ files.model
    /\ ~files.baseline
    /\ pc = "stopped"
    /\ error_shown

\* C7: from the load on, in every run, the baseline row and the classifier
\* are the ones read from the files, whatever the script has done since and
\* whatever the user did in earlier runs; the base probability is the
\* classifier's answer for the vector scored.
C7_ArtifactsNeverMutated ==
    /\ cache # << >> =>
          cache[1].baseline = disk.baseline /\ cache[1].model = disk.model
    /\ Loaded =>
          /\ heap[baseline_df] = disk.baseline
          /\ rf_model = disk.model
    /\ Len(calls) >= 1 => prob = predict_proba(disk.model, calls[1].row)

\* A rerun after a slider change is over: the vector built differs from the
\* baseline row, which is still the one on disk.
C7_Witness ==
    /\ pc = "done"
    /\ widgets # SliderDefault
    /\ heap[input_df] # heap[baseline_df]
    /\ heap[temp_df] # heap[input_df]
    /\ heap[baseline_df] = disk.baseline

\* A built vector that kept the baseline's shared_interests_partner although
\* the slider says otherwise, the other twelve inputs being written.
PartialOverwrite ==
    /\ Built
    /\ heap[input_df]["shared_interests_partner"]
          = disk.baseline["shared_interests_partner"]
    /\ widgets["share_p"] # disk.baseline["shared_interests_partner"]
    /\ \A n \in DOMAIN Assignments :
          Assignments[n][1] # "shared_interests_partner" =>
              heap[input_df][Assignments[n][1]] = widgets[Assignments[n][2]]

C9_ExactlyBaselineColumns ==
    /\ \A k \in 1 .. Len(calls) : DOMAIN calls[k].row = DOMAIN disk.baseline
    /\ Built => DOMAIN heap[input_df] = DOMAIN disk.baseline
    /\ temp_df # "none" => DOMAIN heap[temp_df] = DOMAIN disk.baseline
    /\ Loaded =>
          /\ OverwrittenCols \subseteq DOMAIN heap[baseline_df]
          /\ \A k \in DOMAIN features_to_bump :
                features_to_bump[k] \in DOMAIN heap[baseline_df]

\* All seven calls of a run were made, the last on a vector of the
\* baseline's fifteen columns, the two dataset spellings among them.
C9_Witness ==
    /\ Len(calls) = 7
    /\ Cardinality(DOMAIN calls[7].row) = 15
    /\ "intellicence_important" \in DOMAIN calls[7].row
    /\ "ambtition_important" \in DOMAIN calls[1].row

\* The classifier calls of a complete run, in order.
CallOrder ==
    <<"base", "attractive_partner", "sincere_partner", "intelligence_partner",
      "funny_partner", "ambition_partner", "shared_interests_partner">>

C10_RunShape ==
    /\ Len(calls) <= 7
    /\ \A k \in 1 .. Len(calls) : calls[k].what = CallOrder[k]
    /\ Len(calls) >= 1 => Built
    /\ pc \in {"load", "prepare", "predict"} => calls = << >>
    /\ pc = "done" =>
          /\ Len(calls) = 7
          /\ Len(chart) = 1
          /\ chart[1].rule = prob
          /\ chart[1].chart_df = data_for_chart
          /\ prob = predict_proba(disk.model, calls[1].row)
          /\ \A n \in DOMAIN Assignments :
                calls[1].row[Assignments[n][1]] = widgets[Assignments[n][2]]
          /\ \A k \in 1 .. 6 :
                data_for_chart[k].Probability
                    = predict_proba(disk.model, calls[k + 1].row)

====
